---- MODULE Spec2Model ----
(***************************************************************************)
(* Model of the dev-time diagnostic broker of vite-plugin-snap-api.ts:     *)
(* the session registry (sessions), the correlation table (waiters), the   *)
(* deadline timers, the dispatchers handleDump / handlePing, the HMR       *)
(* channel event handlers and the stale-session sweeper.                   *)
(*                                                                         *)
(* buf is the capture buffers of one agent (CLIENT_CODE) and pushed the    *)
(* number of records its hooks have captured so far, per buffer.           *)
(*                                                                         *)
(* now is Date.now() in milliseconds.  Deadline timers run on the event    *)
(* loop's own clock: an armed timer records its delay and its expiry is an *)
(* event of the environment.  Request identifiers (crypto.randomUUID())    *)
(* are fresh values: the index of the dispatch call that minted them; 0    *)
(* stands for no identifier.                                               *)
(***************************************************************************)
EXTENDS Integers, Sequences, FiniteSets, TLC

VARIABLES now, sessions, waiters, timers, calls, unhandled, outbox, lastEv,
          buf, pushed

vars == <<now, sessions, waiters, timers, calls, unhandled, outbox, lastEv,
          buf, pushed>>

----------------------------------------------------------------------------
(* Bounds of the model *)

MaxCalls == 2
MaxNow == 390001
MaxConsole == 502
MaxOther == 2

(* Program constants *)

DEFAULT_ACTIVE_WINDOW_MS == 45000
STALE_MS == 300000
DUMP_WAIT_MS == 5000
PING_WAIT_MS == 3000
RING_CAP == 500

----------------------------------------------------------------------------
(* Inputs *)

Clients == {"c1"}
BrowserIds == {"b1"}
PageIds == {"p1"}

\* { href, title, ua } of a hello
Meta(href, title, ua) == [href |-> href, title |-> title, ua |-> ua]

Metas == {Meta("/", "t1", "ua1")}

\* const sid = `${browserId}:${pageId}`
Sid(browserId, pageId) == browserId \o ":" \o pageId

HelloSids == {Sid(b, p) : b \in BrowserIds, p \in PageIds}

\* session identifiers a caller or an agent may name; "null" is
\* String(u.searchParams.get('sid')) of a request without the parameter
SidInputs == HelloSids \cup {"null"}

ALL_TYPES == <<"html", "console", "network", "perf", "screenshotDom">>

TypeInputs == {<<"console">>}

\* clock advances: up to and just past the active window, and what is left
\* up to the stale threshold
TickSteps == {DEFAULT_ACTIVE_WINDOW_MS, DEFAULT_ACTIVE_WINDOW_MS + 1,
              STALE_MS - DEFAULT_ACTIVE_WINDOW_MS}

ReqIds == 1..MaxCalls

\* request identifiers a reply may carry: minted ones and ones not minted
\* (yet) when the reply arrives
ReplyIds == 1..MaxCalls

\* reply envelopes {reqId, ok, payload | error}
Replies == [reqId : ReplyIds, ok : BOOLEAN]

NoValue == [reqId |-> 0, ok |-> FALSE]

----------------------------------------------------------------------------
(* Helpers on maps *)

MapSet(m, k, v) == [x \in (DOMAIN m) \cup {k} |-> IF x = k THEN v ELSE m[x]]

MapDelete(m, k) == [x \in (DOMAIN m) \ {k} |-> m[x]]

\* the last handler run and its arguments; idle is the time since the last
\* touch that a pong found in the registry (0 otherwise)
Ev(op, sid, reqId) == [op |-> op, sid |-> sid, reqId |-> reqId, idle |-> 0]

Idle(ss, sid, t) == IF sid \in DOMAIN ss THEN t - ss[sid].lastSeen ELSE 0

----------------------------------------------------------------------------
Init ==
    /\ now = 0
    /\ sessions = <<>>
    /\ waiters = <<>>
    /\ timers = <<>>
    /\ calls = <<>>
    /\ unhandled = {}
    /\ outbox = {}
    /\ lastEv = Ev("init", "", 0)
    /\ buf = [console |-> <<>>, network |-> <<>>, perf |-> <<>>]
    /\ pushed = [console |-> 0, network |-> 0, perf |-> 0]

----------------------------------------------------------------------------
(* Promise p of a dispatch and its caller *)

\* resolve(d) of the promise p of call r: the first settlement wins and is
\* delivered to the caller when handleDump/handlePing reached `await p`
Resolve(cs, r, d) ==
    [cs EXCEPT ![r] =
        [@ EXCEPT !.resolves = @ + 1,
                  !.promise = IF cs[r].promise = "pending" THEN "fulfilled" ELSE @,
                  !.value = IF cs[r].promise = "pending"
                            THEN d ELSE @,
                  !.outcome = IF cs[r].promise = "pending" /\ cs[r].awaited
                              THEN "resolved" ELSE @,
                  !.delivered = IF cs[r].promise = "pending" /\ cs[r].awaited
                                THEN @ + 1 ELSE @]]

\* a reject that never reaches the promise
RejectLost(cs, r) == cs

\* reject(new Error('timeout')) of the promise p of call r
Reject(cs, r) ==
    [cs EXCEPT ![r] =
        [@ EXCEPT !.rejects = @ + 1,
                  !.promise = IF cs[r].promise = "pending" THEN "rejected" ELSE @,
                  !.outcome = IF cs[r].promise = "pending" /\ cs[r].awaited
                              THEN "timeout" ELSE @,
                  !.delivered = IF cs[r].promise = "pending" /\ cs[r].awaited
                                THEN @ + 1 ELSE @]]

\* a rejection of p that no handler is attached to
Unhandled(cs, r) == cs[r].promise = "pending" /\ ~cs[r].awaited

----------------------------------------------------------------------------
(* Dispatchers *)

\* a lookup failure noticed only after the waiter was registered
NoSuchSessionLate(call) ==
    /\ calls' = Append(calls, [call EXCEPT !.outcome = "no such session",
                                            !.delivered = 1])
    /\ waiters' = MapSet(waiters, Len(calls) + 1,
                         [call |-> Len(calls) + 1, timer |-> Len(calls) + 1])
    /\ UNCHANGED <<timers, outbox, unhandled>>

\* const s = sessions.get(sid); if (!s) throw new Error('no such session')
NoSuchSession(call) ==
    /\ calls' = Append(calls, [call EXCEPT !.outcome = "no such session",
                                            !.delivered = 1])
    /\ UNCHANGED <<waiters, timers, outbox, unhandled>>

\* a dispatch that yields between the lookup and the send and lets a bye
\* of the session run in between
DispatchYields(kind, event, sid, types, waitMs, sendThrows) ==
    /\ Len(calls) < MaxCalls
    /\ LET r == Len(calls) + 1
           call == [kind |-> kind, sid |-> sid, types |-> types, waitMs |-> waitMs,
                    reqId |-> 0, promise |-> "none", resolves |-> 0, rejects |-> 0,
                    awaited |-> FALSE, outcome |-> "pending", delivered |-> 0,
                    sends |-> 0, value |-> NoValue]
       IN IF sid \notin DOMAIN sessions
          THEN NoSuchSession(call) /\ UNCHANGED sessions
          ELSE /\ sessions' = MapDelete(sessions, sid)
               /\ timers' = MapSet(timers, r, [delay |-> waitMs])
               /\ waiters' = MapSet(waiters, r, [call |-> r, timer |-> r])
               /\ calls' = Append(calls, [call EXCEPT !.reqId = r,
                                                      !.promise = "pending",
                                                      !.sends = 1,
                                                      !.awaited = TRUE])
               /\ outbox' = outbox \cup
                            {[to |-> sessions[sid].client, event |-> event,
                              reqId |-> r, types |-> types, sid |-> ""]}
               /\ UNCHANGED unhandled
    /\ lastEv' = Ev(kind, sid, IF sid \in DOMAIN sessions THEN Len(calls) + 1 ELSE 0)
    /\ UNCHANGED <<now, buf, pushed>>

\* a dispatch that sends the command first and registers the waiter after
DispatchSendFirst(kind, event, sid, types, waitMs, sendThrows) ==
    /\ Len(calls) < MaxCalls
    /\ LET r == Len(calls) + 1
           call == [kind |-> kind, sid |-> sid, types |-> types, waitMs |-> waitMs,
                    reqId |-> 0, promise |-> "none", resolves |-> 0, rejects |-> 0,
                    awaited |-> FALSE, outcome |-> "pending", delivered |-> 0,
                    sends |-> 0, value |-> NoValue]
       IN IF sid \notin DOMAIN sessions
          THEN NoSuchSession(call)
          ELSE /\ IF sendThrows
                  THEN /\ calls' = Append(calls, [call EXCEPT !.reqId = r,
                                                      !.outcome = "send failed",
                                                      !.delivered = 1])
                       /\ UNCHANGED <<outbox, timers, waiters>>
                  ELSE /\ calls' = Append(calls, [call EXCEPT !.reqId = r,
                                                      !.promise = "pending",
                                                      !.sends = 1,
                                                      !.awaited = TRUE])
                       /\ outbox' = outbox \cup
                            {[to |-> sessions[sid].client, event |-> event,
                              reqId |-> r, types |-> types, sid |-> ""]}
                       /\ timers' = MapSet(timers, r, [delay |-> waitMs])
                       /\ waiters' = MapSet(waiters, r, [call |-> r, timer |-> r])
               /\ UNCHANGED unhandled
    /\ lastEv' = Ev(kind, sid, IF sid \in DOMAIN sessions THEN Len(calls) + 1 ELSE 0)
    /\ UNCHANGED <<now, sessions, buf, pushed>>

\* a dispatch that refuses a session untouched for longer than the active window
DispatchActiveOnly(kind, event, sid, types, waitMs, sendThrows) ==
    /\ Len(calls) < MaxCalls
    /\ LET r == Len(calls) + 1
           call == [kind |-> kind, sid |-> sid, types |-> types, waitMs |-> waitMs,
                    reqId |-> 0, promise |-> "none", resolves |-> 0, rejects |-> 0,
                    awaited |-> FALSE, outcome |-> "pending", delivered |-> 0,
                    sends |-> 0, value |-> NoValue]
       IN IF \/ sid \notin DOMAIN sessions
             \/ now - sessions[sid].lastSeen > DEFAULT_ACTIVE_WINDOW_MS
          THEN NoSuchSession(call)
          ELSE /\ timers' = MapSet(timers, r, [delay |-> waitMs])
               /\ waiters' = MapSet(waiters, r, [call |-> r, timer |-> r])
               /\ IF sendThrows
                  THEN /\ calls' = Append(calls, [call EXCEPT !.reqId = r,
                                                      !.promise = "pending",
                                                      !.outcome = "send failed",
                                                      !.delivered = 1])
                       /\ outbox' = outbox
                  ELSE /\ calls' = Append(calls, [call EXCEPT !.reqId = r,
                                                      !.promise = "pending",
                                                      !.sends = 1,
                                                      !.awaited = TRUE])
                       /\ outbox' = outbox \cup
                            {[to |-> sessions[sid].client, event |-> event,
                              reqId |-> r, types |-> types, sid |-> ""]}
               /\ UNCHANGED unhandled
    /\ lastEv' = Ev(kind, sid, IF Len(calls) + 1 \in DOMAIN waiters'
                               THEN Len(calls) + 1 ELSE 0)
    /\ UNCHANGED <<now, sessions, buf, pushed>>

\* handleDump / handlePing: lookup, mint, register + arm, send, await
Dispatch(kind, event, sid, types, waitMs, sendThrows) ==
    /\ Len(calls) < MaxCalls
    /\ LET r == Len(calls) + 1
           call == [kind |-> kind, sid |-> sid, types |-> types, waitMs |-> waitMs,
                    reqId |-> 0, promise |-> "none", resolves |-> 0, rejects |-> 0,
                    awaited |-> FALSE, outcome |-> "pending", delivered |-> 0,
                    sends |-> 0, value |-> NoValue]
       IN IF sid \notin DOMAIN sessions
          THEN NoSuchSession(call)
          ELSE /\ timers' = MapSet(timers, r, [delay |-> waitMs])
               /\ waiters' = MapSet(waiters, r, [call |-> r, timer |-> r])
               /\ IF sendThrows
                  THEN /\ calls' = Append(calls, [call EXCEPT !.reqId = r,
                                                      !.promise = "pending",
                                                      !.outcome = "send failed",
                                                      !.delivered = 1])
                       /\ outbox' = outbox
                  ELSE /\ calls' = Append(calls, [call EXCEPT !.reqId = r,
                                                      !.promise = "pending",
                                                      !.sends = 1,
                                                      !.awaited = TRUE])
                       /\ outbox' = outbox \cup
                            {[to |-> sessions[sid].client, event |-> event,
                              reqId |-> r, types |-> types, sid |-> ""]}
               /\ UNCHANGED unhandled
    /\ lastEv' = Ev(kind, sid, IF sid \in DOMAIN sessions THEN Len(calls) + 1 ELSE 0)
    /\ UNCHANGED <<now, sessions, buf, pushed>>

handleDump(sid, types, waitMs, sendThrows) ==
    Dispatch("dump", "snap:dump", sid, types, waitMs, sendThrows)

handlePing(sid, waitMs, sendThrows) ==
    Dispatch("ping", "snap:ping", sid, <<>>, waitMs, sendThrows)

\* a deadline that rejects and leaves its entry in the table
TimerFireKeepsEntry(r) ==
    /\ r \in DOMAIN timers
    /\ timers' = MapDelete(timers, r)
    /\ calls' = Reject(calls, r)
    /\ unhandled' = IF Unhandled(calls, r) THEN unhandled \cup {r} ELSE unhandled
    /\ lastEv' = Ev("timeout", "", r)
    /\ UNCHANGED <<now, sessions, waiters, outbox, buf, pushed>>

\* a deadline that also drops the session it was sent to
TimerFireEvicts(r) ==
    /\ r \in DOMAIN timers
    /\ timers' = MapDelete(timers, r)
    /\ waiters' = MapDelete(waiters, r)
    /\ calls' = Reject(calls, r)
    /\ unhandled' = IF Unhandled(calls, r) THEN unhandled \cup {r} ELSE unhandled
    /\ sessions' = MapDelete(sessions, calls[r].sid)
    /\ lastEv' = Ev("timeout", "", r)
    /\ UNCHANGED <<now, outbox, buf, pushed>>

\* a deadline that clears the whole correlation table
TimerFireClearsAll(r) ==
    /\ r \in DOMAIN timers
    /\ timers' = <<>>
    /\ waiters' = <<>>
    /\ calls' = Reject(calls, r)
    /\ unhandled' = IF Unhandled(calls, r) THEN unhandled \cup {r} ELSE unhandled
    /\ lastEv' = Ev("timeout", "", r)
    /\ UNCHANGED <<now, sessions, outbox, buf, pushed>>

\* a deadline that sends the command once more before it gives up
TimerFireRetries(r) ==
    /\ r \in DOMAIN timers
    /\ IF calls[r].sends = 1
       THEN /\ calls' = [calls EXCEPT ![r].sends = 2]
            /\ UNCHANGED <<timers, waiters, unhandled>>
       ELSE /\ timers' = MapDelete(timers, r)
            /\ waiters' = MapDelete(waiters, r)
            /\ calls' = Reject(calls, r)
            /\ unhandled' = IF Unhandled(calls, r) THEN unhandled \cup {r}
                                                    ELSE unhandled
    /\ lastEv' = Ev("timeout", "", r)
    /\ UNCHANGED <<now, sessions, outbox, buf, pushed>>

\* setTimeout(() => { waiters.delete(reqId); reject(new Error('timeout')) }, waitMs)
TimerFire(r) ==
    /\ r \in DOMAIN timers
    /\ timers' = MapDelete(timers, r)
    /\ waiters' = MapDelete(waiters, r)
    /\ calls' = Reject(calls, r)
    /\ unhandled' = IF Unhandled(calls, r) THEN unhandled \cup {r} ELSE unhandled
    /\ lastEv' = Ev("timeout", "", r)
    /\ UNCHANGED <<now, sessions, outbox, buf, pushed>>

----------------------------------------------------------------------------
(* HMR channel events, client -> server *)

\* sessions.set(sid, { sid, browserId, pageId, ua, href, title, client,
\*                     lastSeen: Date.now() }); client.send('snap:ack', { sid })
\* The entry is stored first; a send that throws leaves the handler with
\* the exception and no ack.
Register(client, sid, fields, sendThrows) ==
    /\ sessions' = MapSet(sessions, sid,
           [sid |-> sid, browserId |-> fields.browserId, pageId |-> fields.pageId,
            ua |-> fields.ua, href |-> fields.href, title |-> fields.title,
            client |-> client, lastSeen |-> now])
    /\ IF sendThrows
       THEN /\ outbox' = outbox
            /\ lastEv' = Ev("exception", "snap:hello", 0)
       ELSE /\ outbox' = outbox \cup
                   {[to |-> client, event |-> "snap:ack", reqId |-> 0,
                     types |-> <<>>, sid |-> sid]}
            /\ lastEv' = Ev("snap:hello", sid, 0)
    /\ UNCHANGED <<now, waiters, timers, calls, unhandled, buf, pushed>>

\* a hello that keeps an entry it finds under its key
helloKeepsOld(client, browserId, pageId, meta, sendThrows) ==
    IF Sid(browserId, pageId) \in DOMAIN sessions
    THEN /\ outbox' = outbox \cup
                {[to |-> client, event |-> "snap:ack", reqId |-> 0,
                  types |-> <<>>, sid |-> Sid(browserId, pageId)]}
         /\ lastEv' = Ev("snap:hello", Sid(browserId, pageId), 0)
         /\ UNCHANGED <<now, sessions, waiters, timers, calls, unhandled,
                        buf, pushed>>
    ELSE Register(client, Sid(browserId, pageId),
                  [browserId |-> browserId, pageId |-> pageId, ua |-> meta.ua,
                   href |-> meta.href, title |-> meta.title], sendThrows)

\* server.ws.on('snap:hello', (d, client) => { ... }) for a payload that
\* has all five fields
hello(client, browserId, pageId, meta, sendThrows) ==
    Register(client, Sid(browserId, pageId),
             [browserId |-> browserId, pageId |-> pageId, ua |-> meta.ua,
              href |-> meta.href, title |-> meta.title], sendThrows)

\* a pong that refreshes nothing
pongNoTouch(sid) ==
    /\ lastEv' = [Ev("snap:pong", sid, 0) EXCEPT !.idle = Idle(sessions, sid, now)]
    /\ UNCHANGED <<now, sessions, waiters, timers, calls, unhandled,
                 outbox, buf, pushed>>

\* a pong that registers a session it does not find
pongCreates(sid) ==
    /\ sessions' = IF sid \in DOMAIN sessions
                   THEN [sessions EXCEPT ![sid].lastSeen = now]
                   ELSE MapSet(sessions, sid,
                          [sid |-> sid, browserId |-> "", pageId |-> "",
                           ua |-> "", href |-> "", title |-> "",
                           client |-> "", lastSeen |-> now])
    /\ lastEv' = [Ev("snap:pong", sid, 0) EXCEPT !.idle = Idle(sessions, sid, now)]
    /\ UNCHANGED <<now, waiters, timers, calls, unhandled, outbox, buf, pushed>>

\* server.ws.on('snap:pong', (d) => { const s = sessions.get(d?.sid);
\*                                   if (s) s.lastSeen = Date.now() })
pong(sid) ==
    /\ sessions' = IF sid \in DOMAIN sessions
                   THEN [sessions EXCEPT ![sid].lastSeen = now]
                   ELSE sessions
    /\ lastEv' = [Ev("snap:pong", sid, 0) EXCEPT !.idle = Idle(sessions, sid, now)]
    /\ UNCHANGED <<now, waiters, timers, calls, unhandled, outbox, buf, pushed>>

\* a reply handler that forgets clearTimeout
ResultKeepTimer(ev, d) ==
    /\ IF d.reqId \in DOMAIN waiters
       THEN LET w == waiters[d.reqId]
            IN /\ waiters' = MapDelete(waiters, d.reqId)
               /\ calls' = Resolve(calls, w.call, d)
               /\ UNCHANGED timers
       ELSE UNCHANGED <<timers, waiters, calls>>
    /\ lastEv' = Ev(ev, "", d.reqId)
    /\ UNCHANGED <<now, sessions, unhandled, outbox, buf, pushed>>

\* a reply handler that resolves without looking the waiter up
ResultNoLookup(ev, d) ==
    /\ IF d.reqId \in 1..Len(calls) /\ calls[d.reqId].reqId = d.reqId
       THEN /\ timers' = MapDelete(timers, d.reqId)
            /\ waiters' = MapDelete(waiters, d.reqId)
            /\ calls' = Resolve(calls, d.reqId, d)
       ELSE UNCHANGED <<timers, waiters, calls>>
    /\ lastEv' = Ev(ev, "", d.reqId)
    /\ UNCHANGED <<now, sessions, unhandled, outbox, buf, pushed>>

\* a reply handler that completes a waiter only with a reply of its own kind
ResultChecksKind(ev, d) ==
    /\ IF /\ d.reqId \in DOMAIN waiters
          /\ ev = (IF calls[waiters[d.reqId].call].kind = "dump"
                   THEN "snap:dumpResult" ELSE "snap:pingResult")
       THEN LET w == waiters[d.reqId]
            IN /\ timers' = MapDelete(timers, w.timer)
               /\ waiters' = MapDelete(waiters, d.reqId)
               /\ calls' = Resolve(calls, w.call, d)
       ELSE UNCHANGED <<timers, waiters, calls>>
    /\ lastEv' = Ev(ev, "", d.reqId)
    /\ UNCHANGED <<now, sessions, unhandled, outbox, buf, pushed>>

\* the oldest waiter of the table
Oldest(ws) == CHOOSE r \in DOMAIN ws : \A x \in DOMAIN ws : r <= x

\* a reply handler that completes waiters in the order they were registered
ResultFifo(ev, d) ==
    /\ IF d.reqId \in DOMAIN waiters
       THEN LET w == waiters[Oldest(waiters)]
            IN /\ timers' = MapDelete(timers, w.timer)
               /\ waiters' = MapDelete(waiters, w.call)
               /\ calls' = Resolve(calls, w.call, d)
       ELSE UNCHANGED <<timers, waiters, calls>>
    /\ lastEv' = Ev(ev, "", d.reqId)
    /\ UNCHANGED <<now, sessions, unhandled, outbox, buf, pushed>>

\* const w = waiters.get(d?.reqId);
\* if (w) { clearTimeout(w.timer); waiters.delete(d.reqId); w.resolve(d) }
Result(ev, d) ==
    /\ IF d.reqId \in DOMAIN waiters
       THEN LET w == waiters[d.reqId]
            IN /\ timers' = MapDelete(timers, w.timer)
               /\ waiters' = MapDelete(waiters, d.reqId)
               /\ calls' = Resolve(calls, w.call, d)
       ELSE UNCHANGED <<timers, waiters, calls>>
    /\ lastEv' = Ev(ev, "", d.reqId)
    /\ UNCHANGED <<now, sessions, unhandled, outbox, buf, pushed>>

dumpResult(d) == Result("snap:dumpResult", d)

pingResult(d) == Result("snap:pingResult", d)

\* a bye that also drops the waiters sent to the session
byeCancels(sid) ==
    /\ sessions' = IF sid # "" THEN MapDelete(sessions, sid) ELSE sessions
    /\ waiters' = [r \in {x \in DOMAIN waiters : calls[x].sid # sid} |-> waiters[r]]
    /\ timers' = [r \in {x \in DOMAIN timers : calls[x].sid # sid} |-> timers[r]]
    /\ lastEv' = Ev("snap:bye", sid, 0)
    /\ UNCHANGED <<now, calls, unhandled, outbox, buf, pushed>>

\* a bye that empties the registry when it does not find the session
byeClearsUnknown(sid) ==
    /\ sessions' = IF sid \in DOMAIN sessions THEN MapDelete(sessions, sid) ELSE <<>>
    /\ lastEv' = Ev("snap:bye", sid, 0)
    /\ UNCHANGED <<now, waiters, timers, calls, unhandled, outbox, buf, pushed>>

\* const sid = d?.sid; if (sid) sessions.delete(sid)
bye(sid) ==
    /\ sessions' = IF sid # "" THEN MapDelete(sessions, sid) ELSE sessions
    /\ lastEv' = Ev("snap:bye", sid, 0)
    /\ UNCHANGED <<now, waiters, timers, calls, unhandled, outbox, buf, pushed>>

----------------------------------------------------------------------------
(* Sweeper and listing *)

\* a sweep that subtracts the wrong way round
SweptSignError(ss, t) ==
    [sid \in {x \in DOMAIN ss : ~(ss[x].lastSeen - t > STALE_MS)} |-> ss[sid]]

\* a sweep that evicts at the threshold already
SweptAtThreshold(ss, t) ==
    [sid \in {x \in DOMAIN ss : ~(t - ss[x].lastSeen >= STALE_MS)} |-> ss[sid]]

\* for (const [sid, sess] of sessions)
\*   if (now - sess.lastSeen > 5 * 60_000) sessions.delete(sid)
Swept(ss, t) ==
    [sid \in {x \in DOMAIN ss : ~(t - ss[x].lastSeen > STALE_MS)} |-> ss[sid]]

sweeper ==
    /\ sessions' = Swept(sessions, now)
    /\ lastEv' = Ev("sweep", "", 0)
    /\ UNCHANGED <<now, waiters, timers, calls, unhandled, outbox, buf, pushed>>

\* GET /__snap/sessions: the sids listed
ListSessions(ss, t, onlyActive, activeMs) ==
    {sid \in DOMAIN ss : ~onlyActive \/ (t - ss[sid].lastSeen <= activeMs)}

ActiveSessions == ListSessions(sessions, now, TRUE, DEFAULT_ACTIVE_WINDOW_MS)

\* u.searchParams.get(name): null when the parameter is absent, else its
\* text, kept as a sequence of characters
NoParam == [present |-> FALSE, text |-> <<>>]

Param(text) == [present |-> TRUE, text |-> text]

\* a JavaScript number: an integer or NaN
Num(n) == [nan |-> FALSE, n |-> n]

NaN == [nan |-> TRUE, n |-> 0]

DigitChars == <<"0", "1", "2", "3", "4", "5", "6", "7", "8", "9">>

IsDigits(text) ==
    /\ Len(text) > 0
    /\ \A i \in 1..Len(text) : \E k \in 1..10 : DigitChars[k] = text[i]

DigitVal(ch) == (CHOOSE k \in 1..10 : DigitChars[k] = ch) - 1

RECURSIVE DecVal(_)
DecVal(text) ==
    IF text = <<>> THEN 0
    ELSE 10 * DecVal(SubSeq(text, 1, Len(text) - 1)) + DigitVal(text[Len(text)])

\* Number(text) for a text that is empty, a decimal integer with an
\* optional sign, or not a number at all
ToNumber(text) ==
    IF text = <<>> THEN Num(0)
    ELSE IF IsDigits(text) THEN Num(DecVal(text))
    ELSE IF text[1] = "-" /\ IsDigits(Tail(text)) THEN Num(0 - DecVal(Tail(text)))
    ELSE IF text[1] = "+" /\ IsDigits(Tail(text)) THEN Num(DecVal(Tail(text)))
    ELSE NaN

\* Math.max(0, x): NaN when x is NaN
MathMax0(x) == IF x.nan THEN NaN ELSE Num(IF x.n > 0 THEN x.n ELSE 0)

\* a <= x for an integer a: false when x is NaN
Leq(a, x) == ~x.nan /\ a <= x.n

\* { sid, browserId, pageId, url: s.href, title, ua, lastSeen }
Summary(s) ==
    [sid |-> s.sid, browserId |-> s.browserId, pageId |-> s.pageId,
     url |-> s.href, title |-> s.title, ua |-> s.ua, lastSeen |-> s.lastSeen]

OnlyActive(activeParam, activeMsParam) ==
    (activeParam.present /\ activeParam.text = <<"1">>) \/ activeMsParam.present

\* an empty text is falsy and takes the default
ActiveMs(activeMsParam) ==
    IF activeMsParam.present /\ activeMsParam.text # <<>>
    THEN MathMax0(ToNumber(activeMsParam.text))
    ELSE Num(DEFAULT_ACTIVE_WINDOW_MS)

\* a filter that leaves the boundary out
SessionItemsStrict(ss, t, activeParam, activeMsParam) ==
    {Summary(ss[sid]) :
        sid \in {x \in DOMAIN ss :
                    \/ ~OnlyActive(activeParam, activeMsParam)
                    \/ Leq(t - ss[x].lastSeen + 1, ActiveMs(activeMsParam))}}

\* [...sessions.values()].filter(...).map(...)
SessionItems(ss, t, activeParam, activeMsParam) ==
    {Summary(ss[sid]) :
        sid \in {x \in DOMAIN ss :
                    \/ ~OnlyActive(activeParam, activeMsParam)
                    \/ Leq(t - ss[x].lastSeen, ActiveMs(activeMsParam))}}

\* GET /__snap/sessions?active=..&activeMs=..: the response is recorded in
\* lastEv with the parameters of the request
listSessions(activeParam, activeMsParam) ==
    /\ lastEv' = [op |-> "list", sid |-> "", reqId |-> 0, idle |-> 0,
                  active |-> activeParam, activeMs |-> activeMsParam,
                  items |-> SessionItems(sessions, now, activeParam, activeMsParam)]
    /\ UNCHANGED <<now, sessions, waiters, timers, calls, unhandled,
                 outbox, buf, pushed>>

----------------------------------------------------------------------------
(* REST routes that dispatch *)

\* a field of the JSON body of POST /__snap/dump that may be missing
Missing == [present |-> FALSE]

Given(v) == [present |-> TRUE, v |-> v]

\* x ?? dflt
Nullish(x, dflt) == IF x.present THEN x.v ELSE dflt

\* POST /__snap/dump: handleDump(body.sid, body.types ?? [all five], body.waitMs ?? 5000)
postDump(sid, types, waitMs, sendThrows) ==
    handleDump(sid, Nullish(types, ALL_TYPES), Nullish(waitMs, 5000), sendThrows)

\* GET /__snap/html: handleDump(sid, ['html']), waitMs = 5000 by default
getHtml(sid, sendThrows) == handleDump(sid, <<"html">>, DUMP_WAIT_MS, sendThrows)

\* GET /__snap/console
getConsole(sid, sendThrows) == handleDump(sid, <<"console">>, DUMP_WAIT_MS, sendThrows)

\* a network route that leaves the performance entries out
getNetworkOnly(sid, sendThrows) ==
    handleDump(sid, <<"network">>, DUMP_WAIT_MS, sendThrows)

\* GET /__snap/network
getNetwork(sid, sendThrows) ==
    handleDump(sid, <<"network", "perf">>, DUMP_WAIT_MS, sendThrows)

\* GET /__snap/screenshot
getScreenshot(sid, sendThrows) ==
    handleDump(sid, <<"screenshotDom">>, DUMP_WAIT_MS, sendThrows)

\* GET /__snap/ping: waitMs = Number(u.searchParams.get('waitMs') ?? 3000),
\* for a parameter that is absent or a decimal integer
getPing(sid, waitMsParam, sendThrows) ==
    handlePing(sid,
               IF waitMsParam.present THEN ToNumber(waitMsParam.text).n
                                      ELSE PING_WAIT_MS,
               sendThrows)

\* a request line
Request(method, path) == [method |-> method, path |-> path]

\* the route whose condition (req.method and u.pathname) the request meets,
\* named by the last part of its path; "next" when it meets none
Route(method, path) ==
    CASE method = "GET" /\ path = "/__snap/sessions" -> "sessions"
      [] method = "POST" /\ path = "/__snap/dump" -> "dump"
      [] method = "GET" /\ path = "/__snap/html" -> "html"
      [] method = "GET" /\ path = "/__snap/console" -> "console"
      [] method = "GET" /\ path = "/__snap/network" -> "network"
      [] method = "GET" /\ path = "/__snap/screenshot" -> "screenshot"
      [] method = "GET" /\ path = "/__snap/ping" -> "ping"
      [] OTHER -> "next"

\* the requests of the facade that dispatch a dump, and the one that pings
RequestsOf(kind) ==
    IF kind = "dump"
    THEN {Request("POST", "/__snap/dump"), Request("GET", "/__snap/html"),
          Request("GET", "/__snap/console"), Request("GET", "/__snap/network"),
          Request("GET", "/__snap/screenshot")}
    ELSE {Request("GET", "/__snap/ping")}

\* A text is the sequence of the UTF-16 code units of a JavaScript string.
\* The code unit of a printable ASCII character, from the two runs of
\* these characters around U+0060:
CodeOf ==
    LET low == " !\"#$%&'()*+,-./0123456789:;<=>?@ABCDEFGHIJKLMNOPQRSTUVWXYZ[\\]^_"
        high == "abcdefghijklmnopqrstuvwxyz{|}~"
    IN  [ch \in {SubSeq(low, i, i) : i \in 1..Len(low)}
                  \cup {SubSeq(high, i, i) : i \in 1..Len(high)} |->
            CHOOSE c \in 32..126 :
                \/ c <= 95 /\ SubSeq(low, c - 31, c - 31) = ch
                \/ c >= 97 /\ SubSeq(high, c - 96, c - 96) = ch]

\* the text of a string literal
Codes(str) == [i \in 1..Len(str) |-> CodeOf[SubSeq(str, i, i)]]

\* a value as JSON carries it: null, a boolean, an integer, a string (a
\* text), an array, an object with some fields; undefined is what a
\* missing field reads as
JsNull == [t |-> "null"]

JsUndefined == [t |-> "undefined"]

JsBool(b) == [t |-> "boolean", b |-> b]

JsNum(n) == [t |-> "number", n |-> n]

JsStr(s) == [t |-> "string", s |-> s]

JsArr(items) == [t |-> "array", items |-> items]

Obj(fields) == [t |-> "object", f |-> fields]

\* out?.payload
PayloadOf(out) == IF "payload" \in DOMAIN out THEN out.payload ELSE JsUndefined

\* x?.name for a name that only an object can have as a field
Prop(x, name) ==
    IF x.t = "object" THEN IF name \in DOMAIN x.f THEN x.f[name] ELSE JsUndefined
    ELSE JsUndefined

\* out?.payload?.screenshotDom
ScreenshotOf(out) == Prop(PayloadOf(out), "screenshotDom")

\* out?.payload?.html
HtmlOf(out) == Prop(PayloadOf(out), "html")

\* !!x
Truthy(x) ==
    CASE x.t \in {"null", "undefined"} -> FALSE
      [] x.t = "boolean" -> x.b
      [] x.t = "number" -> x.n # 0
      [] x.t = "string" -> x.s # <<>>
      [] OTHER -> TRUE

RECURSIVE NatText(_)
NatText(n) ==
    IF n < 10 THEN <<48 + n>>
    ELSE NatText(n \div 10) \o <<48 + (n % 10)>>

\* an integer in decimal, as String(n) and util.inspect(n) print it
NumText(n) == IF n < 0 THEN <<45>> \o NatText(-n) ELSE NatText(n)

\* the result of a conversion to a string: a text, or a TypeError
Converted(text) == [thrown |-> FALSE, text |-> text]

\* the TypeError of a conversion that no method of the object serves
MessagePrimitive == Codes("Cannot convert object to primitive value")

NotConverted(message) == [thrown |-> TRUE, message |-> message]

RECURSIVE ToText(_)
RECURSIVE JoinText(_)
\* String(x), the conversion RegExp.prototype.exec and a template literal
\* apply.  An object is converted by Object.prototype.toString unless it
\* has a toString field of its own, which JSON cannot make callable: then
\* no method yields a primitive and the conversion throws.
ToText(x) ==
    CASE x.t = "string" -> Converted(x.s)
      [] x.t = "number" -> Converted(NumText(x.n))
      [] x.t = "boolean" -> Converted(IF x.b THEN Codes("true") ELSE Codes("false"))
      [] x.t = "null" -> Converted(Codes("null"))
      [] x.t = "undefined" -> Converted(Codes("undefined"))
      [] x.t = "array" -> JoinText(x.items)
      [] OTHER -> IF "toString" \in DOMAIN x.f THEN NotConverted(MessagePrimitive)
                  ELSE Converted(Codes("[object Object]"))

\* Array.prototype.join with ",": null and undefined print as nothing
JoinText(items) ==
    IF items = <<>> THEN Converted(<<>>)
    ELSE LET head == IF items[1].t \in {"null", "undefined"} THEN Converted(<<>>)
                     ELSE ToText(items[1])
             rest == JoinText(Tail(items))
         IN  IF Len(items) = 1 THEN head
             ELSE IF head.thrown THEN head
             ELSE IF rest.thrown THEN rest
             ELSE Converted(head.text \o <<44>> \o rest.text)

\* a letter, whichever its case (flag i)
Lower(c) == IF c \in 65..90 THEN c + 32 ELSE c

HasAt(text, i, lit) ==
    /\ i + Len(lit) - 1 <= Len(text)
    /\ \A k \in 1..Len(lit) : Lower(text[i + k - 1]) = lit[k]

\* the code units of text[i..j] are ones that "." matches: no line
\* terminator (U+000A, U+000D, U+2028, U+2029)
NoBreak(text, i, j) == \A k \in i..j : text[k] \notin {10, 13, 8232, 8233}

\* the places where ";base64," may start for /^data:(.+?);base64,(.*)$/i to
\* match: "data:" in front, a type part of at least one code unit, and no
\* line terminator in the type part nor in what follows the separator
Separators(text) ==
    IF HasAt(text, 1, Codes("data:"))
    THEN {k \in 7..Len(text) : /\ HasAt(text, k, Codes(";base64,"))
                               /\ NoBreak(text, 6, k - 1)
                               /\ NoBreak(text, k + 8, Len(text))}
    ELSE {}

\* /^data:(.+?);base64,(.*)$/i.exec(text) is not null
IsDataUrl(text) == Separators(text) # {}

\* m[1]: the lazy group ends at the first separator that lets the rest match
TypePart(text) ==
    LET k == CHOOSE x \in Separators(text) : \A y \in Separators(text) : x <= y
    IN  SubSeq(text, 6, k - 1)

\* the code units a header value may hold: the tab, U+0020..U+007E and
\* U+0080..U+00FF
HeaderChars == {9} \cup (32..126) \cup (128..255)

\* checkInvalidHeaderChar(value) finds nothing
ValidHeaderValue(text) == \A i \in 1..Len(text) : text[i] \in HeaderChars

\* what ERR_INVALID_ARG_TYPE says it received, for a value that is truthy
\* and no string: the type and the value of a primitive, and for an object
\*   value.constructor && 'name' in value.constructor
\*     ? `an instance of ${value.constructor.name}`
\*     : util.inspect(value, { depth: -1 })
\* An object's constructor is Object unless it has a constructor field of
\* its own; `in` throws on a truthy constructor that is no object, and an
\* array has no name.
Received(x) ==
    CASE x.t = "number" -> Converted(Codes("type number (") \o NumText(x.n) \o <<41>>)
      [] x.t = "boolean" -> Converted(Codes("type boolean (true)"))
      [] x.t = "array" -> Converted(Codes("an instance of Array"))
      [] OTHER ->
           IF "constructor" \notin DOMAIN x.f
           THEN Converted(Codes("an instance of Object"))
           ELSE LET c == x.f.constructor
                IN  IF ~Truthy(c) THEN Converted(Codes("[Object]"))
                    ELSE IF c.t \in {"number", "string", "boolean"}
                         THEN NotConverted(
                                Codes("Cannot use 'in' operator to search for 'name' in ")
                                    \o ToText(c).text)
                    ELSE IF c.t = "array" \/ "name" \notin DOMAIN c.f
                         THEN Converted(Codes("[Object]"))
                    ELSE IF ToText(c.f.name).thrown THEN ToText(c.f.name)
                    ELSE Converted(Codes("an instance of ") \o ToText(c.f.name).text)

\* a response: the status, the error of a JSON error body, the text of a
\* plain body
Answer(status, error, body) ==
    [responded |-> TRUE, status |-> status, error |-> error, body |-> body,
     next |-> FALSE]

\* the route is still awaiting its dispatch
NoAnswer ==
    [responded |-> FALSE, status |-> 0, error |-> <<>>, body |-> "", next |-> FALSE]

\* next(): the request is handed to the next middleware unanswered
PassedOn ==
    [responded |-> FALSE, status |-> 0, error |-> <<>>, body |-> "", next |-> TRUE]

\* the catch block: res.statusCode = 500;
\* res.end(JSON.stringify({ error: e?.message || String(e) }))
Caught(message) == Answer(500, message, "")

MessageChunk ==
    Codes("The \"chunk\" argument must be of type string or an instance of Buffer or Uint8Array. Received ")

MessageHeader == Codes("Invalid character in header content [\"content-type\"]")

\* GET /__snap/html after the await: res.end(out?.payload?.html || '<!-- no html -->')
\* throws when it is handed a value that is no string
HtmlAnswer(out) ==
    IF Truthy(HtmlOf(out)) /\ HtmlOf(out).t # "string"
    THEN IF Received(HtmlOf(out)).thrown THEN Caught(Received(HtmlOf(out)).message)
         ELSE Caught(MessageChunk \o Received(HtmlOf(out)).text)
    ELSE Answer(200, <<>>, "")

\* GET /__snap/screenshot after the await: 404 without a screenshot, 500
\* when it is no data URL; exec throws when the value has no conversion to
\* a string, and res.setHeader('content-type', m[1]) throws when the type
\* part holds a code unit that no header value may hold
ScreenshotAnswer(out) ==
    LET dataUrl == ScreenshotOf(out)
    IN  IF ~Truthy(dataUrl) THEN Answer(404, <<>>, "no screenshot")
        ELSE IF ToText(dataUrl).thrown THEN Caught(ToText(dataUrl).message)
        ELSE IF ~IsDataUrl(ToText(dataUrl).text)
             THEN Answer(500, <<>>, "bad dataurl")
        ELSE IF ~ValidHeaderValue(TypePart(ToText(dataUrl).text))
             THEN Caught(MessageHeader)
             ELSE Answer(200, <<>>, "")

\* what a route does with the reply once the await has returned it; the
\* routes that answer with JSON.stringify of the reply or of a part of it
\* cannot fail
Replied(route, out) ==
    CASE route = "html" -> HtmlAnswer(out)
      [] route = "screenshot" -> ScreenshotAnswer(out)
      [] OTHER -> Answer(200, <<>>, "")

\* a catch block that swallows a timeout and never answers
RouteOutcomeSwallows(route, call) ==
    CASE call.outcome = "resolved" -> Replied(route, call.value)
      [] call.outcome \in {"no such session", "send failed"} ->
           Caught(Codes(call.outcome))
      [] OTHER -> NoAnswer

\* what the route that made the call has answered: its own response after
\* the await, or the catch block's with the message of the error that the
\* dispatch threw.
RouteOutcome(route, call) ==
    CASE call.outcome = "resolved" -> Replied(route, call.value)
      [] call.outcome \in {"timeout", "no such session", "send failed"} ->
           Caught(Codes(call.outcome))
      [] OTHER -> NoAnswer

\* what the middleware has done with a request whose dispatch is call: the
\* outcome of the route it met, or next() when it met none (line 136)
Middleware(request, call) ==
    IF Route(request.method, request.path) = "next" THEN PassedOn
    ELSE RouteOutcome(Route(request.method, request.path), call)

\* server.middlewares.use(async (req, res, next) => ...) for a request with
\* a sid parameter and no other: the route it meets runs, and a request
\* that meets none is passed on
middleware(method, path, sid, sendThrows) ==
    LET route == Route(method, path)
    IN  IF route = "sessions" THEN listSessions(NoParam, NoParam)
        ELSE IF route = "dump" THEN postDump(sid, Missing, Missing, sendThrows)
        ELSE IF route = "html" THEN getHtml(sid, sendThrows)
        ELSE IF route = "console" THEN getConsole(sid, sendThrows)
        ELSE IF route = "network" THEN getNetwork(sid, sendThrows)
        ELSE IF route = "screenshot" THEN getScreenshot(sid, sendThrows)
        ELSE IF route = "ping" THEN getPing(sid, NoParam, sendThrows)
        ELSE /\ lastEv' = Ev("next", method \o " " \o path, 0)
             /\ UNCHANGED <<now, sessions, waiters, timers, calls, unhandled,
                          outbox, buf, pushed>>

----------------------------------------------------------------------------
(* Channel event handlers on the payload as it arrives *)

EmptyObj == Obj([x \in {} |-> ""])

\* the result of a property access: a TypeError, undefined, or a value
Thrown == [raised |-> TRUE, def |-> FALSE]

Undefined == [raised |-> FALSE, def |-> FALSE]

Val(v) == [raised |-> FALSE, def |-> TRUE, v |-> v]

\* d.name
Get(d, name) ==
    IF d.t \in {"null", "undefined"} THEN Thrown
    ELSE IF name \in DOMAIN d.f THEN Val(d.f[name]) ELSE Undefined

\* d?.name
OptGet(d, name) ==
    IF d.t \in {"null", "undefined"} THEN Undefined ELSE Get(d, name)

\* `${x}` of a string or undefined
Str(x) == IF x.def THEN x.v ELSE "undefined"

\* a session key that is a string, or none: undefined is no key of the
\* map and is falsy as the empty string is
SidKey(x) == IF x.def THEN x.v ELSE ""

\* an exception leaves the handler; nothing else has happened
Throw(op) ==
    /\ lastEv' = Ev("exception", op, 0)
    /\ UNCHANGED <<now, sessions, waiters, timers, calls, unhandled,
                 outbox, buf, pushed>>

\* the value a destructured field is bound to: the string, or undefined
Bound(x) == IF x.def THEN x.v ELSE JsUndefined

\* const { browserId, pageId, href, title, ua } = d || {}
\* const sid = `${browserId}:${pageId}`
\* A field the payload lacks is stored as undefined; only sid prints it.
onHello(client, d, sendThrows) ==
    LET o == IF d.t = "object" THEN d ELSE EmptyObj
        browserId == Get(o, "browserId")
        pageId == Get(o, "pageId")
        href == Get(o, "href")
        title == Get(o, "title")
        ua == Get(o, "ua")
    IN  IF browserId.raised \/ pageId.raised \/ href.raised \/ title.raised
           \/ ua.raised
        THEN Throw("snap:hello")
        ELSE Register(client, Sid(Str(browserId), Str(pageId)),
                      [browserId |-> Bound(browserId), pageId |-> Bound(pageId),
                       ua |-> Bound(ua), href |-> Bound(href),
                       title |-> Bound(title)], sendThrows)

\* sessions.get(d?.sid)
onPong(d) ==
    LET sid == OptGet(d, "sid")
    IN  IF sid.raised THEN Throw("snap:pong") ELSE pong(SidKey(sid))

\* const sid = d?.sid
onBye(d) ==
    LET sid == OptGet(d, "sid")
    IN  IF sid.raised THEN Throw("snap:bye") ELSE bye(SidKey(sid))

\* waiters.get(d?.reqId)
ResultKey(d) == OptGet(d, "reqId")

\* const w = waiters.get(d?.reqId); if (w) { ...; waiters.delete(d.reqId); ... }
onResult(ev, d) ==
    LET k == ResultKey(d)
    IN  IF k.raised THEN Throw(ev)
        ELSE IF k.def /\ k.v \in DOMAIN waiters
        THEN IF Get(d, "reqId").raised THEN Throw(ev) ELSE Result(ev, d.f)
        ELSE Result(ev, NoValue)

onDumpResult(d) == onResult("snap:dumpResult", d)

onPingResult(d) == onResult("snap:pingResult", d)

----------------------------------------------------------------------------
(* Capture buffers of the agent *)

BufKinds == {"console", "network", "perf"}

\* how many records the hooks of each kind capture at most
MaxPushed(kind) == IF kind = "console" THEN MaxConsole ELSE MaxOther

\* a ring that is full one record early
ringEarly(a, v, c) ==
    LET b == Append(a, v) IN IF Len(b) >= c THEN Tail(b) ELSE b

\* const ring = (a,v,c=500)=>{a.push(v); if(a.length>c) a.shift()}
ring(a, v, c) ==
    LET b == Append(a, v) IN IF Len(b) > c THEN Tail(b) ELSE b

\* the k-th record a hook captures
Record(k) == [n |-> k]

\* a console call, a fetch or a resource timing entry is captured:
\* ring(buf.console, {...}), ring(buf.network, {...}), ring(buf.perf, {...})
capture(kind) ==
    /\ pushed[kind] < MaxPushed(kind)
    /\ pushed' = [pushed EXCEPT ![kind] = @ + 1]
    /\ buf' = [buf EXCEPT ![kind] = ring(@, Record(pushed[kind] + 1), RING_CAP)]
    /\ lastEv' = Ev("ring", kind, 0)
    /\ UNCHANGED <<now, sessions, waiters, timers, calls, unhandled, outbox>>

\* a.slice(-500) of the dump handler
SliceLast500(a) ==
    IF Len(a) <= 500 THEN a ELSE SubSeq(a, Len(a) - 499, Len(a))

----------------------------------------------------------------------------
(* Clock *)

Tick(d) ==
    /\ now + d <= MaxNow
    /\ now' = now + d
    /\ lastEv' = Ev("tick", "", 0)
    /\ UNCHANGED <<sessions, waiters, timers, calls, unhandled, outbox,
                   buf, pushed>>

----------------------------------------------------------------------------
Next ==
    \/ \E sid \in SidInputs, types \in TypeInputs, th \in BOOLEAN :
          handleDump(sid, types, DUMP_WAIT_MS, th)
    \/ \E sid \in SidInputs, th \in BOOLEAN :
          handlePing(sid, PING_WAIT_MS, th)
    \/ \E r \in ReqIds : TimerFire(r)
    \/ \E c \in Clients, b \in BrowserIds, p \in PageIds, m \in Metas :
          hello(c, b, p, m, FALSE)
    \/ \E sid \in SidInputs : pong(sid)
    \/ \E d \in Replies : dumpResult(d)
    \/ \E d \in Replies : pingResult(d)
    \/ \E sid \in SidInputs : bye(sid)
    \/ sweeper
    \/ Tick(STALE_MS + 1)

Spec == Init /\ [][Next]_vars

\* the registry under a finer clock
NextTime ==
    \/ \E c \in Clients, b \in BrowserIds, p \in PageIds, m \in Metas :
          hello(c, b, p, m, FALSE)
    \/ \E sid \in HelloSids : pong(sid)
    \/ sweeper
    \/ \E d \in TickSteps : Tick(d)

TimeSpec == Init /\ [][NextTime]_vars

\* hellos whose identifiers are arbitrary strings, as the handler accepts
IdClients == {"c1", "c2"}
IdBrowserIds == {"b1", "b1:p1"}
IdPageIds == {"p1", "p1:p1"}

NextId ==
    \/ \E c \in IdClients, b \in IdBrowserIds, p \in IdPageIds, m \in Metas :
          hello(c, b, p, m, FALSE)
    \/ Tick(STALE_MS + 1)

IdSpec == Init /\ [][NextId]_vars

\* two agents, each with its own client handle and page, and callers that
\* ask them for different kinds
Agents == {<<"c1", "b1", "p1">>, <<"c2", "b1", "p2">>}

AgentSids == {Sid(a[2], a[3]) : a \in Agents}

MultiTypes == {<<"console">>, <<"html">>}

NextMulti ==
    \/ \E a \in Agents, m \in Metas : hello(a[1], a[2], a[3], m, FALSE)
    \/ \E sid \in AgentSids, types \in MultiTypes :
          handleDump(sid, types, DUMP_WAIT_MS, FALSE)
    \/ \E sid \in AgentSids : handlePing(sid, PING_WAIT_MS, FALSE)
    \/ \E r \in ReqIds : TimerFire(r)
    \/ \E d \in Replies : dumpResult(d)
    \/ \E d \in Replies : pingResult(d)

MultiSpec == Init /\ [][NextMulti]_vars

\* the registry under the events of two agents; a client may say hello for
\* either page, its ack may fail to be sent, and pong and bye may name a
\* session that is not registered or no session at all
RegPairs == {<<a[2], a[3]>> : a \in Agents}

RegSidInputs == AgentSids \cup {"null", ""}

NextReg ==
    \/ \E c \in IdClients, bp \in RegPairs, m \in Metas, th \in BOOLEAN :
          hello(c, bp[1], bp[2], m, th)
    \/ \E sid \in RegSidInputs : pong(sid)
    \/ \E sid \in RegSidInputs : bye(sid)
    \/ sweeper
    \/ Tick(STALE_MS + 1)

RegSpec == Init /\ [][NextReg]_vars

\* the registry of an agent that stops its heartbeats: the last hello or
\* pong comes early enough for the bounded clock to pass the stale
\* threshold after it; the interval timer of the sweeper keeps firing and
\* time keeps passing
CanExpire == now + STALE_MS + DEFAULT_ACTIVE_WINDOW_MS <= MaxNow

NextSweep ==
    \/ /\ CanExpire
       /\ \E c \in Clients, b \in BrowserIds, p \in PageIds, m \in Metas :
             hello(c, b, p, m, FALSE)
    \/ /\ CanExpire
       /\ \E sid \in HelloSids : pong(sid)
    \/ sweeper
    \/ \E d \in TickSteps : Tick(d)

SweepSpec ==
    /\ Init /\ [][NextSweep]_vars
    /\ WF_vars(sweeper)
    /\ WF_vars(\E d \in TickSteps : Tick(d))

\* the registry over time with listing requests
ActiveInputs == {NoParam, Param(<<"1">>), Param(<<"0">>)}

ActiveMsInputs ==
    {NoParam, Param(<<>>), Param(<<"0">>), Param(<<"4", "5", "0", "0", "1">>),
     Param(<<"-", "1">>), Param(<<"a", "b", "c">>)}

NextList ==
    \/ NextTime
    \/ \E a \in ActiveInputs, ms \in ActiveMsInputs : listSessions(a, ms)

ListSpec == Init /\ [][NextList]_vars

\* the registry of two agents of different ages under the finer clock
NextAge ==
    \/ \E a \in Agents, m \in Metas : hello(a[1], a[2], a[3], m, FALSE)
    \/ \E sid \in AgentSids : pong(sid)
    \/ sweeper
    \/ \E d \in TickSteps : Tick(d)

AgeSpec == Init /\ [][NextAge]_vars

\* one page whose agent reconnects under another client handle, with
\* callers dispatching to it while it comes and goes
NextHandle ==
    \/ \E c \in IdClients, b \in BrowserIds, p \in PageIds, m \in Metas :
          hello(c, b, p, m, FALSE)
    \/ \E sid \in HelloSids, types \in TypeInputs :
          handleDump(sid, types, DUMP_WAIT_MS, FALSE)
    \/ \E sid \in HelloSids : handlePing(sid, PING_WAIT_MS, FALSE)
    \/ \E r \in ReqIds : TimerFire(r)
    \/ \E d \in Replies : dumpResult(d)
    \/ \E sid \in HelloSids : bye(sid)
    \/ sweeper
    \/ Tick(STALE_MS + 1)

HandleSpec == Init /\ [][NextHandle]_vars

\* two agents whose replies are tagged with the client they arrive from:
\* the second argument of a channel event handler, which the reply
\* handlers do not take
OriginReplies == [reqId : ReplyIds, ok : {TRUE}, from : IdClients]

NextOrigin ==
    \/ \E a \in Agents, m \in Metas : hello(a[1], a[2], a[3], m, FALSE)
    \/ \E sid \in AgentSids, types \in TypeInputs :
          handleDump(sid, types, DUMP_WAIT_MS, FALSE)
    \/ \E sid \in AgentSids : handlePing(sid, PING_WAIT_MS, FALSE)
    \/ \E r \in ReqIds : TimerFire(r)
    \/ \E d \in OriginReplies : dumpResult(d)
    \/ \E d \in OriginReplies : pingResult(d)

OriginSpec == Init /\ [][NextOrigin]_vars

\* callers of the REST routes
BodyTypes == {Missing, Given(<<"console">>)}

BodyWaits == {Missing, Given(1000)}

WaitParams == {NoParam, Param(<<"1", "0", "0", "0">>)}

NextRoute ==
    \/ \E c \in Clients, b \in BrowserIds, p \in PageIds, m \in Metas :
          hello(c, b, p, m, FALSE)
    \/ \E sid \in SidInputs, types \in BodyTypes, waitMs \in BodyWaits :
          postDump(sid, types, waitMs, FALSE)
    \/ \E sid \in SidInputs : getHtml(sid, FALSE)
    \/ \E sid \in SidInputs : getConsole(sid, FALSE)
    \/ \E sid \in SidInputs : getNetwork(sid, FALSE)
    \/ \E sid \in SidInputs : getScreenshot(sid, FALSE)
    \/ \E sid \in SidInputs, w \in WaitParams : getPing(sid, w, FALSE)
    \/ \E r \in ReqIds : TimerFire(r)
    \/ \E d \in Replies : dumpResult(d)
    \/ \E d \in Replies : pingResult(d)

RouteSpec == Init /\ [][NextRoute]_vars

\* what the agent puts in a reply: a number where the page should be, a
\* screenshot, one whose type part holds a form feed, and a text that is
\* no data URL
RoutePayloads ==
    {Obj([html |-> JsNum(5)]),
     Obj([screenshotDom |-> JsStr(Codes("data:image/png;base64,AA"))]),
     Obj([screenshotDom |-> JsStr(Codes("data:a") \o <<12>> \o Codes(";base64,AA"))]),
     Obj([screenshotDom |-> JsStr(Codes("no data url"))])}

RouteReplies == [reqId : ReplyIds, ok : {TRUE}, payload : RoutePayloads]

\* requests to three routes of the facade, and one that meets no route
AnswerRequests ==
    {Request("GET", "/__snap/html"), Request("GET", "/__snap/screenshot"),
     Request("GET", "/__snap/ping"), Request("POST", "/__snap/html")}

\* callers of the routes that answer with a part of the reply, agents that
\* reply with these payloads or with none (a reply is matched by its
\* request identifier alone, so either event answers either kind of call),
\* and deadline timers that fire when armed
NextAnswer ==
    \/ \E c \in Clients, b \in BrowserIds, p \in PageIds, m \in Metas :
          hello(c, b, p, m, FALSE)
    \/ \E rq \in AnswerRequests, sid \in SidInputs :
          middleware(rq.method, rq.path, sid, FALSE)
    \/ \E r \in ReqIds : TimerFire(r)
    \/ \E d \in RouteReplies : dumpResult(d)
    \/ \E d \in [reqId : ReplyIds, ok : {TRUE}] : pingResult(d)

AnswerSpec == Init /\ [][NextAnswer]_vars /\ \A r \in ReqIds : WF_vars(TimerFire(r))

\* agents that send well-formed and malformed payloads
Malformed == {JsNull, JsUndefined, EmptyObj}

HelloPayloads ==
    Malformed \cup
    {Obj([browserId |-> "b1", pageId |-> "p1", href |-> "/", title |-> "t1",
          ua |-> "ua1"]),
     Obj([browserId |-> "b1"])}

SidPayloads ==
    Malformed \cup {Obj([sid |-> "b1:p1"]), Obj([sid |-> "undefined:undefined"]),
                    Obj([id |-> "b1:p1"])}

ResultPayloads ==
    Malformed \cup {Obj([reqId |-> r, ok |-> TRUE]) : r \in ReplyIds}
              \cup {Obj([ok |-> TRUE])}

NextPayload ==
    \/ \E c \in Clients, d \in HelloPayloads, th \in BOOLEAN : onHello(c, d, th)
    \/ \E d \in SidPayloads : onPong(d)
    \/ \E d \in SidPayloads : onBye(d)
    \/ \E d \in ResultPayloads : onDumpResult(d)
    \/ \E d \in ResultPayloads : onPingResult(d)
    \/ \E sid \in HelloSids, types \in TypeInputs :
          handleDump(sid, types, DUMP_WAIT_MS, FALSE)
    \/ \E r \in ReqIds : TimerFire(r)
    \/ sweeper
    \/ Tick(STALE_MS + 1)

PayloadSpec == Init /\ [][NextPayload]_vars

\* the hooks of one agent capturing records
NextRing == \E kind \in BufKinds : capture(kind)

RingSpec == Init /\ [][NextRing]_vars

\* timers are per-request fair: a due callback is eventually run
LiveSpec == Spec /\ \A r \in ReqIds : WF_vars(TimerFire(r))

----------------------------------------------------------------------------
(* Properties *)

Minted(r) == r \in 1..Len(calls) /\ calls[r].reqId = r

Delivered(r) == r \in 1..Len(calls) /\ calls[r].delivered = 1

ResultOps == {"snap:dumpResult", "snap:pingResult"}

\* C1: for every minted request identifier the reply and the deadline
\* together invoke the waiter's callbacks at most once and the caller gets
\* at most one outcome: after a reply won, the timer is cancelled; after
\* the deadline won, the waiter is gone, so a late reply finds nothing.
C1_AtMostOneOutcome ==
    \A r \in 1..Len(calls) :
        /\ calls[r].resolves + calls[r].rejects <= 1
        /\ calls[r].delivered <= 1
        /\ (calls[r].resolves = 1 => r \notin DOMAIN timers)
        /\ (calls[r].rejects = 1 => r \notin DOMAIN waiters)

\* a reply for request 1 was processed after its deadline had fired
C1_Witness ==
    /\ Len(calls) >= 1
    /\ calls[1].rejects = 1
    /\ calls[1].outcome = "timeout"
    /\ lastEv.op \in ResultOps
    /\ lastEv.reqId = 1

\* C2: every dispatch that passed the session lookup eventually delivers
\* exactly one outcome to its caller, never none and never two, also when
\* the agent never replies and when the session is removed meanwhile.
C2_ExactlyOneEventually ==
    /\ \A r \in ReqIds : [](Minted(r) => <>Delivered(r))
    /\ [](\A r \in 1..Len(calls) : calls[r].delivered <= 1)

\* a request timed out for its caller after its session had been removed
C2_Witness ==
    \E r \in 1..Len(calls) :
        /\ Minted(r)
        /\ calls[r].sid \notin DOMAIN sessions
        /\ calls[r].outcome = "timeout"
        /\ calls[r].delivered = 1
        /\ lastEv = Ev("timeout", "", r)

\* C3: a reply carrying ok:false never fulfils the dispatch: the waiter is
\* rejected, so a fulfilled dispatch holds an envelope with ok true.
C3_NotOkRejects ==
    \A r \in 1..Len(calls) : calls[r].promise = "fulfilled" => calls[r].value.ok

\* C4: a dispatch to a session identifier that is not in the registry
\* fails at once with 'no such session': no identifier is minted, no waiter
\* is registered, no timer is armed and nothing is sent.
C4_UnknownSessionFailsFast ==
    [][(/\ Len(calls') = Len(calls) + 1
        /\ calls'[Len(calls')].sid \notin DOMAIN sessions)
       => /\ calls'[Len(calls')].outcome = "no such session"
          /\ calls'[Len(calls')].delivered = 1
          /\ calls'[Len(calls')].reqId = 0
          /\ waiters' = waiters
          /\ timers' = timers
          /\ outbox' = outbox]_vars

\* a dispatch to a session that had said hello and was removed has failed
C4_Witness ==
    /\ Len(calls) >= 1
    /\ calls[Len(calls)].outcome = "no such session"
    /\ calls[Len(calls)].sid \in HelloSids
    /\ \E m \in outbox : m.event = "snap:ack" /\ m.sid = calls[Len(calls)].sid
    /\ lastEv.op \in {"dump", "ping"}

\* C5: a dumpResult or pingResult whose identifier is not in the
\* correlation table changes neither table nor registry, reaches no caller
\* and raises nothing.
C5_UnknownReplyDropped ==
    [][\A r \in ReplyIds :
          (/\ lastEv'.op \in ResultOps
           /\ lastEv'.reqId = r
           /\ r \notin DOMAIN waiters)
          => UNCHANGED <<waiters, timers, sessions, calls, unhandled, outbox, now>>]_vars

\* a reply arrived for a request that had already timed out
C5_Witness ==
    /\ lastEv.op \in ResultOps
    /\ lastEv.reqId \in 1..Len(calls)
    /\ calls[lastEv.reqId].outcome = "timeout"
    /\ calls[lastEv.reqId].resolves = 0

\* C6 (as claimed): every timeout rejection removes the waiter and reaches
\* the caller of the dispatch; none is left unhandled.
C6_TimeoutAlwaysHandled ==
    \A r \in 1..Len(calls) :
        calls[r].promise = "rejected"
            => /\ r \notin DOMAIN waiters
               /\ calls[r].outcome = "timeout"
               /\ r \notin unhandled

\* C7 (as claimed): every waiter in the table belongs to a dispatch whose
\* caller has no outcome yet, and when every dispatch has completed the
\* table is empty.
C7_WaiterOnlyWhilePending ==
    /\ \A r \in DOMAIN waiters : Minted(r) /\ calls[r].delivered = 0
    /\ (\A r \in 1..Len(calls) : calls[r].delivered = 1) => DOMAIN waiters = {}

\* C8: removing a session, by bye or by the sweeper, leaves the correlation
\* table, the timers and every caller untouched; a waiter whose session is
\* gone keeps its armed timer and its pending promise.
C8_RemovalKeepsWaiters ==
    /\ [][(DOMAIN sessions' # DOMAIN sessions /\ DOMAIN sessions' \subseteq DOMAIN sessions)
          => UNCHANGED <<waiters, timers, calls, unhandled>>]_vars
    /\ [](\A r \in DOMAIN waiters :
            calls[r].sid \notin DOMAIN sessions
                => r \in DOMAIN timers /\ calls[r].promise = "pending")

\* the sweeper evicted a session while a request sent to it was pending
C8_Witness ==
    \E r \in DOMAIN waiters :
        /\ calls[r].sid \notin DOMAIN sessions
        /\ calls[r].awaited
        /\ lastEv.op = "sweep"

\* C9: no step of a dispatch (the call itself, its reply, its timeout)
\* changes the session registry or the active listing.
C9_DispatchKeepsRegistry ==
    [][calls' # calls
       => /\ sessions' = sessions
          /\ ListSessions(sessions', now', TRUE, DEFAULT_ACTIVE_WINDOW_MS)
               = ListSessions(sessions, now, TRUE, DEFAULT_ACTIVE_WINDOW_MS)]_vars

\* a dump timed out and its session is still listed as active
C9_Witness ==
    \E r \in 1..Len(calls) :
        /\ calls[r].kind = "dump"
        /\ calls[r].outcome = "timeout"
        /\ calls[r].sid \in ActiveSessions
        /\ lastEv = Ev("timeout", "", r)

\* the registry has answered a hello of this session
Acked(sid) == \E m \in outbox : m.event = "snap:ack" /\ m.sid = sid

\* C10 (as claimed): a session that said hello and is not listed as active
\* any more is listed as active again right after any later pong for it.
C10_PongAlwaysRevives ==
    [][\A sid \in HelloSids :
          (/\ lastEv'.op = "snap:pong"
           /\ lastEv'.sid = sid
           /\ Acked(sid)
           /\ sid \notin ActiveSessions)
          => sid \in ListSessions(sessions', now', TRUE, DEFAULT_ACTIVE_WINDOW_MS)]_vars

\* C10 (amended): a session untouched for longer than the active window is
\* not in the active-only listing; a pong for a session that is still in
\* the registry puts it in the active-only listing; a pong for a session
\* that was removed is ignored and lists nothing.
C10_PongRevivesRegistered ==
    /\ [](\A sid \in DOMAIN sessions :
            now - sessions[sid].lastSeen > DEFAULT_ACTIVE_WINDOW_MS
                => sid \notin ActiveSessions)
    /\ [][\A sid \in HelloSids :
            (lastEv'.op = "snap:pong" /\ lastEv'.sid = sid)
                => IF sid \in DOMAIN sessions
                   THEN sid \in ListSessions(sessions', now', TRUE,
                                             DEFAULT_ACTIVE_WINDOW_MS)
                   ELSE sessions' = sessions]_vars

\* a pong refreshed a session that had been untouched for longer than the
\* active window, and the session is listed as active
C10_Witness ==
    \E sid \in DOMAIN sessions :
        /\ lastEv.op = "snap:pong"
        /\ lastEv.sid = sid
        /\ lastEv.idle > DEFAULT_ACTIVE_WINDOW_MS
        /\ sessions[sid].lastSeen = now
        /\ sid \in ActiveSessions

\* the identity pair an entry was created for
PairOf(e) == <<e.browserId, e.pageId>>

\* C11: identity is the pair (browserId, pageId): a hello never replaces
\* or removes the entry of a session whose pair differs from its own, so
\* two hellos with different pairs leave two entries.
C11_PairIsIdentity ==
    [][lastEv'.op = "snap:hello"
       => \A k \in DOMAIN sessions :
             PairOf(sessions[k]) # PairOf(sessions'[lastEv'.sid])
                => k \in DOMAIN sessions' /\ sessions'[k] = sessions[k]]_vars

\* C12: requests pending against two different sessions are independent:
\* a fulfilled dispatch holds the reply that carries its own identifier,
\* and a step that settles one request leaves the call, the waiter and the
\* timer of a request sent to another session as they were.
C12_SessionsIndependent ==
    /\ [](\A r \in 1..Len(calls) :
            calls[r].promise = "fulfilled" => calls[r].value.reqId = r)
    /\ [][\A r1, r2 \in 1..Len(calls) :
            (/\ calls[r1].sid # calls[r2].sid
             /\ calls'[r1] # calls[r1])
            => /\ calls'[r2] = calls[r2]
               /\ (r2 \in DOMAIN waiters <=> r2 \in DOMAIN waiters')
               /\ (r2 \in DOMAIN timers <=> r2 \in DOMAIN timers')]_vars

\* two dumps with different kinds for two sessions were pending together
\* and each caller has the reply with its own identifier
C12_Witness ==
    /\ Len(calls) >= 2
    /\ calls[1].kind = "dump" /\ calls[2].kind = "dump"
    /\ calls[1].sid # calls[2].sid
    /\ calls[1].types # calls[2].types
    /\ calls[1].outcome = "resolved" /\ calls[1].value.reqId = 1
    /\ calls[2].outcome = "resolved" /\ calls[2].value.reqId = 2
    /\ lastEv = Ev("snap:dumpResult", "", 1)

\* C13: a reply completes the waiter registered under the identifier it
\* carries, whatever the order of arrival: that call is resolved with this
\* reply and every other call and waiter is left alone.
C13_MatchedByIdentifier ==
    [][(lastEv'.op \in ResultOps /\ lastEv'.reqId \in DOMAIN waiters)
       => /\ calls'[lastEv'.reqId].resolves = calls[lastEv'.reqId].resolves + 1
          /\ calls'[lastEv'.reqId].value.reqId = lastEv'.reqId
          /\ DOMAIN waiters' = DOMAIN waiters \ {lastEv'.reqId}
          /\ \A r \in 1..Len(calls) :
                r # lastEv'.reqId => calls'[r] = calls[r]]_vars

\* a dump and then a ping were sent to one session; the ping was answered
\* first, the dump last, and each caller has its own reply
C13_Witness ==
    /\ Len(calls) >= 2
    /\ calls[1].kind = "dump" /\ calls[2].kind = "ping"
    /\ calls[1].sid = calls[2].sid
    /\ calls[1].outcome = "resolved" /\ calls[1].value.reqId = 1
    /\ calls[2].outcome = "resolved" /\ calls[2].value.reqId = 2
    /\ lastEv = Ev("snap:dumpResult", "", 1)

\* the command messages sent for request r
Commands(r) == {m \in outbox : m.event \in {"snap:dump", "snap:ping"} /\ m.reqId = r}

\* C20: nothing is retried: a dispatch mints at most one identifier, which
\* no earlier dispatch used, and sends at most one command, also after it
\* failed; a failed lookup mints and sends nothing.
C20_NoRetry ==
    \A r \in 1..Len(calls) :
        /\ calls[r].sends <= 1
        /\ Cardinality(Commands(r)) = calls[r].sends
        /\ (calls[r].outcome = "no such session"
                => calls[r].reqId = 0 /\ calls[r].sends = 0)
        /\ \A q \in 1..Len(calls) :
              (q # r /\ Minted(q) /\ Minted(r)) => calls[q].reqId # calls[r].reqId

\* a caller dispatched again after a timeout, under a new identifier
C20_Witness ==
    /\ Len(calls) >= 2
    /\ calls[1].outcome = "timeout"
    /\ calls[2].sid = calls[1].sid /\ calls[2].kind = calls[1].kind
    /\ Minted(1) /\ Minted(2)
    /\ calls[1].sends = 1 /\ calls[2].sends = 1

\* The registry operations of the design, on the set of entries
Entries(ss) == {ss[k] : k \in DOMAIN ss}

RegUpsert(es, e) == {x \in es : x.sid # e.sid} \cup {e}

RegTouch(es, sid, t) ==
    {IF x.sid = sid THEN [x EXCEPT !.lastSeen = t] ELSE x : x \in es}

RegRemove(es, sid) == {x \in es : x.sid # sid}

NoDispatchEffect == UNCHANGED <<waiters, timers, calls, unhandled>>

\* C14: each hello, pong and bye changes the registry exactly as the
\* matching registry operation (upsert, touch, remove) applied to the
\* registry before the event, with the clock reading of the event; so the
\* registry after a sequence of events is the operations applied one at a
\* time, in order.
C14_EventsApplyInOrder ==
    [][/\ lastEv'.op = "snap:hello"
          => \E c \in IdClients, bp \in RegPairs, m \in Metas :
                /\ Sid(bp[1], bp[2]) = lastEv'.sid
                /\ Entries(sessions') = RegUpsert(Entries(sessions),
                      [sid |-> lastEv'.sid, browserId |-> bp[1], pageId |-> bp[2],
                       ua |-> m.ua, href |-> m.href, title |-> m.title,
                       client |-> c, lastSeen |-> now])
       /\ lastEv'.op = "snap:pong"
          => Entries(sessions') = RegTouch(Entries(sessions), lastEv'.sid, now)
       /\ lastEv'.op = "snap:bye"
          => Entries(sessions') = RegRemove(Entries(sessions), lastEv'.sid)
       /\ lastEv'.op \in {"snap:hello", "snap:pong", "snap:bye"}
          => /\ \A k \in DOMAIN sessions' : sessions'[k].sid = k
             /\ now' = now]_vars

\* a bye removed a session that had said hello, while the other session,
\* touched after the clock had advanced, stayed registered
C14_Witness ==
    \E sid \in AgentSids, other \in DOMAIN sessions :
        /\ lastEv = Ev("snap:bye", sid, 0)
        /\ Acked(sid)
        /\ sid \notin DOMAIN sessions
        /\ other # sid
        /\ sessions[other].lastSeen > 0

\* C17: a pong for a registered session sets the last-seen of that session
\* to now and nothing else; a pong for any other identifier changes
\* nothing and creates nothing.
C17_PongTouchesOnlyItsSession ==
    [][lastEv'.op = "snap:pong"
       => /\ DOMAIN sessions' = DOMAIN sessions
          /\ \A k \in DOMAIN sessions :
                IF k = lastEv'.sid
                THEN sessions'[k] = [sessions[k] EXCEPT !.lastSeen = now]
                ELSE sessions'[k] = sessions[k]
          /\ NoDispatchEffect
          /\ UNCHANGED <<outbox, now>>]_vars

\* a pong refreshed a session that had been idle, and the other session
\* kept its older last-seen
C17_Witness ==
    \E sid, other \in DOMAIN sessions :
        /\ lastEv.op = "snap:pong" /\ lastEv.sid = sid
        /\ lastEv.idle > 0
        /\ sessions[sid].lastSeen = now
        /\ other # sid
        /\ sessions[other].lastSeen < now

\* C19: a bye leaves the registry without the named session and with
\* every other entry as it was; a bye for a session that is not registered
\* changes nothing, so a second bye is the same as one.
C19_ByeIdempotent ==
    [][lastEv'.op = "snap:bye"
       => /\ sessions' = MapDelete(sessions, lastEv'.sid)
          /\ MapDelete(sessions', lastEv'.sid) = sessions'
          /\ (lastEv'.sid \notin DOMAIN sessions => sessions' = sessions)
          /\ NoDispatchEffect
          /\ UNCHANGED <<outbox, now>>]_vars

\* a bye named a session that was never registered, while another was
C19_Witness ==
    /\ lastEv.op = "snap:bye"
    /\ lastEv.sid \in AgentSids
    /\ ~Acked(lastEv.sid)
    /\ DOMAIN sessions # {}

\* the entries registered for an identity pair
EntriesOf(ss, pair) == {k \in DOMAIN ss : PairOf(ss[k]) = pair}

\* C18 (as claimed): after a hello the registry holds exactly one entry for
\* the pair of the hello, with its metadata, the sending client and
\* last-seen now, and every entry of a different pair is unchanged.
C18_HelloUpsertsItsIdentity ==
    [][\A c \in IdClients, b \in IdBrowserIds, p \in IdPageIds, m \in Metas :
          hello(c, b, p, m, FALSE)
          => /\ Cardinality(EntriesOf(sessions', <<b, p>>)) = 1
             /\ \A k \in EntriesOf(sessions', <<b, p>>) :
                   /\ sessions'[k].client = c
                   /\ sessions'[k].lastSeen = now
                   /\ Meta(sessions'[k].href, sessions'[k].title, sessions'[k].ua) = m
             /\ \A k \in DOMAIN sessions \ EntriesOf(sessions, <<b, p>>) :
                   k \in DOMAIN sessions' /\ sessions'[k] = sessions[k]]_vars

\* C15: a session that gets no further hello or pong leaves the registry:
\* it stops being listed as active once the window has passed, the sweeper
\* removes it only after the stale threshold has elapsed, and with the
\* sweeper running every registered session is eventually removed.
C15_StaleSessionEventuallyRemoved ==
    /\ \A sid \in HelloSids :
          [](sid \in DOMAIN sessions => <>(sid \notin DOMAIN sessions))
    /\ [](\A sid \in DOMAIN sessions :
            now - sessions[sid].lastSeen > STALE_MS => sid \notin ActiveSessions)
    /\ [][\A sid \in DOMAIN sessions :
            sid \notin DOMAIN sessions'
                => /\ lastEv'.op = "sweep"
                   /\ now - sessions[sid].lastSeen > STALE_MS]_vars

\* the sweeper has removed a session that had said hello
C15_Witness ==
    \E sid \in HelloSids :
        /\ Acked(sid)
        /\ sid \notin DOMAIN sessions
        /\ now > STALE_MS
        /\ lastEv.op = "sweep"

\* the entries of the registry untouched for at most w milliseconds
Within(w) == {Summary(sessions[sid]) :
                 sid \in {x \in DOMAIN sessions : now - sessions[x].lastSeen <= w}}

AllItems == {Summary(sessions[sid]) : sid \in DOMAIN sessions}

\* the window a request asks for, where it asks for an integer one
WindowGiven(ms) == ms \in {Param(<<"0">>), Param(<<"4", "5", "0", "0", "1">>),
                            Param(<<"-", "1">>)}

WindowOf(ms) ==
    CASE ms = Param(<<"0">>) -> 0
      [] ms = Param(<<"4", "5", "0", "0", "1">>) -> 45001
      [] ms = Param(<<"-", "1">>) -> 0 - 1

NoWindow(ms) == ms \in {NoParam, Param(<<>>)}

FilterAsked(a, ms) == a = Param(<<"1">>) \/ ms # NoParam

\* C16 (as claimed): a listing with the filter returns exactly the entries
\* with now - lastSeen <= windowMs, the window being 45000 when none is
\* given; a listing without the filter returns every entry; a listing
\* leaves the registry unchanged.
C16_ListsWithinGivenWindow ==
    [][lastEv'.op = "list"
          => LET a == lastEv'.active
                 ms == lastEv'.activeMs
             IN  /\ sessions' = sessions
                 /\ ~FilterAsked(a, ms) => lastEv'.items = AllItems
                 /\ (FilterAsked(a, ms) /\ NoWindow(ms))
                        => lastEv'.items = Within(DEFAULT_ACTIVE_WINDOW_MS)
                 /\ (FilterAsked(a, ms) /\ WindowGiven(ms))
                        => lastEv'.items = Within(WindowOf(ms))]_vars

\* C16 (amended): as claimed, with a negative window taken as 0, so that
\* entries touched in the very millisecond of the listing are returned,
\* and with a window that is not a number listing nothing.
C16_ListsWithinClampedWindow ==
    [][lastEv'.op = "list"
          => LET a == lastEv'.active
                 ms == lastEv'.activeMs
             IN  /\ sessions' = sessions
                 /\ ~FilterAsked(a, ms) => lastEv'.items = AllItems
                 /\ (FilterAsked(a, ms) /\ NoWindow(ms))
                        => lastEv'.items = Within(DEFAULT_ACTIVE_WINDOW_MS)
                 /\ (FilterAsked(a, ms) /\ WindowGiven(ms))
                        => lastEv'.items = Within(IF WindowOf(ms) < 0 THEN 0
                                                  ELSE WindowOf(ms))
                 /\ (FilterAsked(a, ms) /\ ~NoWindow(ms) /\ ~WindowGiven(ms))
                        => lastEv'.items = {}]_vars

\* an active-only listing with the default window has returned a session
\* that is exactly 45000 ms old
C16_Witness ==
    /\ lastEv.op = "list"
    /\ lastEv.active = Param(<<"1">>)
    /\ lastEv.activeMs = NoParam
    /\ \E sid \in DOMAIN sessions :
          /\ now - sessions[sid].lastSeen = DEFAULT_ACTIVE_WINDOW_MS
          /\ Summary(sessions[sid]) \in lastEv.items

\* C24: after a sweep no session untouched for longer than the stale
\* threshold is in the registry, and every session untouched for at most
\* the threshold is still there, unchanged, also when it is outside the
\* active window.
C24_SweepEvictsExactlyStale ==
    [][lastEv'.op = "sweep"
          => /\ \A sid \in DOMAIN sessions' :
                   now' - sessions'[sid].lastSeen <= STALE_MS
             /\ \A sid \in DOMAIN sessions :
                   now - sessions[sid].lastSeen <= STALE_MS
                       => /\ sid \in DOMAIN sessions'
                          /\ sessions'[sid] = sessions[sid]]_vars

\* a sweep has removed one agent's session and kept the other's, which is
\* exactly at the threshold and outside the active window
C24_Witness ==
    /\ lastEv.op = "sweep"
    /\ \E sid \in AgentSids :
          /\ sid \in DOMAIN sessions
          /\ now - sessions[sid].lastSeen = STALE_MS
          /\ sid \notin ActiveSessions
    /\ \E sid \in AgentSids : Acked(sid) /\ sid \notin DOMAIN sessions

\* C27: at every state the armed deadline timers are exactly the timers of
\* the entries of the correlation table, one per request identifier, and
\* no deadline has fired for an identifier that a reply resolved.
C27_TimersAreWaiters ==
    /\ DOMAIN timers = DOMAIN waiters
    /\ \A r \in DOMAIN waiters : waiters[r].timer = r /\ Minted(r)
    /\ \A r \in 1..Len(calls) :
          /\ calls[r].resolves = 1 => calls[r].rejects = 0
          /\ (calls[r].resolves = 1 \/ calls[r].rejects = 1) => r \notin DOMAIN waiters

\* one request was resolved by a reply and one timed out; neither has a
\* timer or an entry left
C27_Witness ==
    \E r1, r2 \in 1..Len(calls) :
        /\ calls[r1].resolves = 1
        /\ calls[r2].rejects = 1
        /\ DOMAIN timers = {}
        /\ DOMAIN waiters = {}

\* C29: a dispatch is accepted exactly when its session is in the registry,
\* whatever its last-seen time: for a registered session an identifier is
\* minted, the waiter is registered with its deadline and, unless the send
\* itself fails, the command goes to the stored handle; for an absent one
\* the caller gets "no such session" and nothing is registered or sent.
C29_DispatchByPresence ==
    [][lastEv'.op \in {"dump", "ping"}
          => LET r == Len(calls')
                 sid == lastEv'.sid
             IN  IF sid \in DOMAIN sessions
                 THEN /\ calls'[r].reqId = r
                      /\ r \in DOMAIN waiters' /\ r \in DOMAIN timers'
                      /\ calls'[r].outcome \in {"pending", "send failed"}
                      /\ calls'[r].outcome = "pending"
                            => \E m \in outbox' \ outbox :
                                  m.reqId = r /\ m.to = sessions[sid].client
                 ELSE /\ calls'[r].outcome = "no such session"
                      /\ waiters' = waiters /\ timers' = timers
                      /\ outbox' = outbox]_vars

\* a command was sent to a session that is registered, untouched for
\* longer than the active window and not listed as active
C29_Witness ==
    /\ lastEv.op \in {"dump", "ping"}
    /\ lastEv.sid \in DOMAIN sessions
    /\ lastEv.sid \notin ActiveSessions
    /\ calls[Len(calls)].sends = 1
    /\ Len(calls) \in DOMAIN waiters
    /\ \E m \in outbox : m.reqId = Len(calls) /\ m.to = sessions[lastEv.sid].client

\* C25: the waiter and its deadline are in place when the command of a
\* dispatch goes out: every command that appears on a channel carries an
\* identifier that is in the correlation table with an armed timer, a
\* dispatch whose send fails has registered its waiter all the same, and a
\* reply with the identifier handled right after the dispatch resolves it.
C25_RegisteredBeforeSend ==
    /\ [][\A m \in outbox' \ outbox :
             m.event \in {"snap:dump", "snap:ping"}
                 => /\ m.reqId \in DOMAIN waiters' \ DOMAIN waiters
                    /\ m.reqId \in DOMAIN timers' \ DOMAIN timers]_vars
    /\ [][(lastEv'.op \in {"dump", "ping"} /\ lastEv'.reqId # 0)
             => lastEv'.reqId \in DOMAIN waiters']_vars
    /\ [][(/\ lastEv.op \in {"dump", "ping"}
           /\ lastEv.reqId # 0
           /\ lastEv'.op \in ResultOps
           /\ lastEv'.reqId = lastEv.reqId)
             => /\ calls'[lastEv.reqId].resolves = 1
                /\ calls'[lastEv.reqId].value.reqId = lastEv.reqId
                /\ calls[lastEv.reqId].sends = 1
                      => calls'[lastEv.reqId].outcome = "resolved"]_vars

\* the only dispatch so far was resolved by a reply before any time passed
C25_Witness ==
    /\ Len(calls) = 1
    /\ calls[1].sends = 1
    /\ calls[1].outcome = "resolved"
    /\ lastEv.op \in ResultOps
    /\ lastEv.reqId = 1
    /\ now = 0

\* the commands sent so far
CommandsSent == {m \in outbox : m.event \in {"snap:dump", "snap:ping"}}

\* C30: a dispatch is one step: the registry is the same before and after
\* it, its command goes to the handle that the registry holds for the
\* session in that very state, together with the registration of the
\* waiter, and a later hello, bye or sweep of the session changes neither
\* the correlation table nor the commands sent.
C30_DispatchIsAtomic ==
    /\ [][(lastEv'.op \in {"dump", "ping"} /\ lastEv'.reqId # 0)
             => LET r == lastEv'.reqId
                    sid == lastEv'.sid
                IN  /\ sessions' = sessions
                    /\ sid \in DOMAIN sessions'
                    /\ r \in DOMAIN waiters'
                    /\ CommandsSent' \ CommandsSent =
                          {[to |-> sessions'[sid].client,
                            event |-> IF lastEv'.op = "dump" THEN "snap:dump"
                                                             ELSE "snap:ping",
                            reqId |-> r, types |-> calls'[r].types, sid |-> ""]}]_vars
    /\ [][lastEv'.op \in {"snap:hello", "snap:bye", "sweep"}
             => /\ waiters' = waiters
                /\ timers' = timers
                /\ calls' = calls
                /\ CommandsSent' = CommandsSent]_vars

\* a command went to the handle of the second client, which had replaced
\* the first one's entry, and the session was removed afterwards while
\* the waiter stayed registered
C30_Witness ==
    \E r \in DOMAIN waiters :
        /\ calls[r].sid \notin DOMAIN sessions
        /\ lastEv.op \in {"snap:bye", "sweep"}
        /\ \E m \in CommandsSent : m.reqId = r /\ m.to = "c2"
        /\ \E a \in outbox : a.event = "snap:ack" /\ a.to = "c1"

\* the client the command of request r was sent to
SentTo(r) == (CHOOSE m \in CommandsSent : m.reqId = r).to

ResultOpOf(kind) == IF kind = "dump" THEN "snap:dumpResult" ELSE "snap:pingResult"

\* C28 (as claimed): a waiter is resolved only by a reply that comes from
\* the client its command was sent to and that is of the kind of the
\* command.
C28_ResolvedOnlyByOwnAgent ==
    [][\A r \in 1..Len(calls) :
          (calls[r].resolves = 0 /\ calls'[r].resolves = 1)
              => /\ calls'[r].value.from = SentTo(r)
                 /\ lastEv'.op = ResultOpOf(calls[r].kind)]_vars

\* C28 (amended): a waiter is resolved only by a dumpResult or pingResult
\* that carries its request identifier, and by every such reply while the
\* request is pending, whichever client it comes from and whichever of
\* the two kinds it is; a reply with another identifier does not resolve it.
C28_ResolvedOnlyByIdentifier ==
    /\ [][\A r \in 1..Len(calls) :
             (calls[r].resolves = 0 /\ calls'[r].resolves = 1)
                 => /\ lastEv'.op \in ResultOps
                    /\ lastEv'.reqId = r
                    /\ calls'[r].value.reqId = r]_vars
    /\ [][\A r \in DOMAIN waiters :
             (lastEv'.op \in ResultOps /\ lastEv'.reqId = r)
                 => /\ calls'[r].resolves = 1
                    /\ calls'[r].outcome = "resolved"]_vars

\* a dump sent to the first agent was resolved by a pingResult that came
\* from the second agent
C28_Witness ==
    \E r \in 1..Len(calls) :
        /\ calls[r].kind = "dump"
        /\ calls[r].outcome = "resolved"
        /\ SentTo(r) = "c1"
        /\ calls[r].value.from = "c2"
        /\ lastEv = Ev("snap:pingResult", "", r)

\* the step registers one waiter with a 5000 ms deadline and sends one
\* dump command with exactly these kinds to the session, or, for a session
\* that is not registered, fails with nothing registered or sent
OneDumpOf(sid, types) ==
    LET r == Len(calls) + 1
    IN  IF sid \in DOMAIN sessions
        THEN /\ DOMAIN waiters' = DOMAIN waiters \cup {r}
             /\ r \notin DOMAIN waiters
             /\ timers'[r].delay = 5000
             /\ calls'[r].kind = "dump"
             /\ CommandsSent' \ CommandsSent =
                   {[to |-> sessions[sid].client, event |-> "snap:dump",
                     reqId |-> r, types |-> types, sid |-> ""]}
        ELSE /\ calls'[r].outcome = "no such session"
             /\ waiters' = waiters /\ timers' = timers /\ outbox' = outbox

\* C23: the html, console and network routes are a dump of the kinds
\* <<html>>, <<console>> and <<network, perf>> with a 5000 ms budget: each
\* registers one waiter and sends one dump command with exactly these
\* kinds; a dump request that names no kinds asks for all five.
C23_ConvenienceDumps ==
    [][\A sid \in SidInputs :
          /\ getHtml(sid, FALSE) => OneDumpOf(sid, <<"html">>)
          /\ getConsole(sid, FALSE) => OneDumpOf(sid, <<"console">>)
          /\ getNetwork(sid, FALSE) => OneDumpOf(sid, <<"network", "perf">>)
          /\ postDump(sid, Missing, Missing, FALSE)
                => OneDumpOf(sid, <<"html", "console", "network", "perf",
                                   "screenshotDom">>)]_vars

\* the network route and a dump request without kinds have each sent
\* their command, and both waiters are pending with a 5000 ms deadline
C23_Witness ==
    \E m1, m2 \in CommandsSent :
        /\ m1.types = <<"network", "perf">>
        /\ Len(m2.types) = 5
        /\ {m1.reqId, m2.reqId} \subseteq DOMAIN waiters
        /\ timers[m1.reqId].delay = 5000
        /\ timers[m2.reqId].delay = 5000

\* the request lines of the facade's dump and ping routes, as the
\* middleware records one that it passes on
FacadeLines ==
    {rq.method \o " " \o rq.path : rq \in RequestsOf("dump") \cup RequestsOf("ping")}

\* the request that made call r has been answered, whichever request of
\* the facade made it
Responded(r) ==
    /\ r \in 1..Len(calls)
    /\ \A rq \in RequestsOf(calls[r].kind) : Middleware(rq, calls[r]).responded

\* C22: every call of a dump or ping route is answered, no request to one
\* of these routes is passed on to the next handler, a dispatch that fails
\* with an unknown session or a timeout is answered with status 500 and the
\* message of the error, and every error response carries a message,
\* whatever the reply held.
C22_FailuresAreAnswered ==
    /\ \A r \in ReqIds : [](r \in 1..Len(calls) => <>Responded(r))
    /\ [](lastEv.op = "next" => lastEv.sid \notin FacadeLines)
    /\ [](\A r \in 1..Len(calls) : \A rq \in RequestsOf(calls[r].kind) :
            LET o == Middleware(rq, calls[r])
            IN  /\ ~o.next
                /\ calls[r].outcome \in {"timeout", "no such session"}
                      => /\ o.responded
                         /\ o.status = 500
                         /\ o.error = Codes(calls[r].outcome)
                /\ o.responded /\ o.status >= 400
                      => o.error # <<>> \/ o.body # "")

\* one caller was answered "no such session" and another "timeout", and a
\* third route, the screenshot route, would have answered the same
C22_Witness ==
    \E r1, r2 \in 1..Len(calls) :
        /\ calls[r1].outcome = "no such session"
        /\ calls[r2].outcome = "timeout"
        /\ calls[r2].kind = "dump"
        /\ Middleware(Request("GET", "/__snap/html"), calls[r1]).error
              = Codes("no such session")
        /\ Middleware(Request("GET", "/__snap/html"), calls[r2]).error
              = Codes("timeout")
        /\ Middleware(Request("GET", "/__snap/screenshot"), calls[r2]).status = 500


\* C26: no channel event handler and no sweep ends in an exception,
\* whatever the payload and the registry; a pong, a bye or a reply whose
\* payload is null, undefined or lacks the field the handler reads leaves
\* the registry and the correlation table as they are.
C26_HandlersNeverRaise ==
    /\ [](lastEv.op # "exception")
    /\ [][\A d \in Malformed \cup {Obj([id |-> "b1:p1"]), Obj([ok |-> TRUE])} :
             (onPong(d) \/ onBye(d) \/ onDumpResult(d) \/ onPingResult(d))
                 => /\ sessions' = sessions
                    /\ waiters' = waiters
                    /\ timers' = timers
                    /\ calls' = calls]_vars
    /\ [][lastEv'.op = "sweep" => DOMAIN sessions' \subseteq DOMAIN sessions]_vars


\* the last min(n, 500) of the first n records, in the order captured
Recent(n) ==
    LET len == IF n < 500 THEN n ELSE 500
    IN  [i \in 1..len |-> Record(n - len + i)]

\* C21: a capture buffer never holds more than 500 records; it holds the
\* most recent min(n, 500) of the n records captured, in the order they
\* were captured; a capture into a full buffer drops exactly the oldest
\* record; the slice a dump replies with is the whole buffer.
C21_RingKeepsLast500 ==
    /\ [](\A kind \in BufKinds :
            /\ Len(buf[kind]) <= 500
            /\ buf[kind] = Recent(pushed[kind])
            /\ SliceLast500(buf[kind]) = buf[kind])
    /\ [][\A kind \in BufKinds :
            (pushed'[kind] = pushed[kind] + 1 /\ Len(buf[kind]) = 500)
                => buf'[kind] = Append(Tail(buf[kind]), Record(pushed'[kind]))]_vars

\* the console buffer is full and has dropped its oldest records
C21_Witness ==
    /\ pushed.console > 501
    /\ Len(buf.console) = 500
    /\ buf.console[1] = Record(pushed.console - 499)
    /\ buf.console[500] = Record(pushed.console)
    /\ lastEv = Ev("ring", "console", 0)

====
